---- MODULE Spec2Model ----
(***************************************************************************)
(* Model of the arena server in src/src/index.ts: the session registry     *)
(* (players Map), the spawn placement, the collision pass of the move      *)
(* handler, the round timer and the roster broadcast throttle.             *)
(*                                                                         *)
(* One action is one callback of the single-threaded event loop: the       *)
(* websocket open/message/close handlers, the setInterval callback of the  *)
(* round timer and the setTimeout callback of the throttle.  Date.now() is *)
(* the variable now, advanced by AdvanceClock.  Floating-point positions   *)
(* are integers; Math.random() is a choice among the fractions n/RandDen.  *)
(***************************************************************************)
EXTENDS Integers, Sequences, FiniteSets, TLC

\* ------------------------------------------------------------------ bounds
Channels == {1, 2, 3}                   \* websocket connections
ClientId == <<"a", "b", "a">>           \* the id each connection's client joins with
Ids == {ClientId[c] : c \in Channels}   \* the ids named in messages
Null == "null"                          \* null / undefined
StartTime == 100                        \* Date.now() when the process starts
RandDen == 4                            \* Math.random() is n/RandDen, n < RandDen

\* The runs explored.  Each specification bounds its runs by an envelope: the
\* connections that open, the inbound messages and closes handled, the timer
\* ticks fired, the clock's step and last value, and whether the run records
\* the history of the throttle (upd, thr).
DuelMsgs == 5
DuelTicks == 2
DuelStep == 50
DuelTime == 150
RoundMsgs == 3
RoundTicks == 21
RoundStep == 50
RoundTime == 150
ThrottleMsgs == 4
ThrottleTicks == 1
ThrottleStep == 25
ThrottleTime == 200
CrowdMsgs == 4
CrowdTicks == 1
CrowdStep == 50
CrowdTime == 150
WalkMsgs == 3
WalkTicks == 1
WalkStep == 50
WalkTime == 150

\* The move inputs explored, <<dx, dy>>: the usual ones and those of a walk
Moves == {<<0, 0>>, <<0 - 5000, 5000>>}
WalkMoves == Moves \cup {<<5000, 0 - 5000>>, <<7, 0 - 3>>, <<0 - 7, 3>>}

\* watch: the run records the history of the throttle and, past its last time,
\* goes on until the live timeouts are due.
Envelope(chans, msgs, ticks, step, time, watch, moves) ==
    [chans |-> chans, msgs |-> msgs, ticks |-> ticks, step |-> step, time |-> time,
     watch |-> watch, moves |-> moves]
Duel == Envelope({1, 2}, DuelMsgs, DuelTicks, DuelStep, DuelTime, FALSE, Moves)
Round == Envelope({1}, RoundMsgs, RoundTicks, RoundStep, RoundTime, FALSE, Moves)
Throttle ==
    Envelope({1}, ThrottleMsgs, ThrottleTicks, ThrottleStep, ThrottleTime, TRUE, Moves)
Crowd == Envelope({1, 2, 3}, CrowdMsgs, CrowdTicks, CrowdStep, CrowdTime, FALSE, Moves)
Walk == Envelope({1}, WalkMsgs, WalkTicks, WalkStep, WalkTime, FALSE, WalkMoves)

\* -------------------------------------------------------- program constants
PLAYER_SIZE == 64
ARENA_WIDTH == 1200
ARENA_HEIGHT == 600
MAX_SPAWN_ATTEMPTS == 100
BROADCAST_RATE == 50
ROUND_SECONDS == 20
CENTER_WIDTH == 200
CENTER_HEIGHT == 150
EDGE_MARGIN == 80
HIT_WIDTH == 24
HIT_HEIGHT == 40

VARIABLES
    connected,          \* channels opened and not yet closed
    players,            \* the Map ws -> Player: its entries [ws, p] in insertion order
    gameTimer, gameRunning, gamePaused,
    timerInterval,      \* TRUE when the handle variable holds an interval
    intervals,          \* number of live setInterval timers
    now,                \* Date.now()
    lastBroadcastTime, broadcastPending,
    broadcastTimeout,   \* {} for null, or {due time of the timeout the handle names}
    timeouts,           \* due times of the live setTimeout callbacks, in scheduling order
    env,                \* the envelope of the run (never changes)
    nMsgs,              \* inbound messages and closes handled so far
    nTicks,             \* timer ticks fired so far
    ev,                 \* the last event handled
    out,                \* the sends of the last event, in order
    joined,             \* history: channels that joined since they opened
    upd,                \* history: the last two players:update broadcasts
    thr,                \* history: the last two throttled broadcast requests
    pauseMark           \* history: the pause of the running round

timerVars == <<gameTimer, gameRunning, gamePaused, timerInterval, intervals>>
throttleVars == <<lastBroadcastTime, broadcastPending, broadcastTimeout, timeouts>>
histVars == <<joined, upd, thr, pauseMark>>
vars == <<connected, players, gameTimer, gameRunning, gamePaused,
          timerInterval, intervals, now, lastBroadcastTime, broadcastPending,
          broadcastTimeout, timeouts, env, nMsgs, nTicks, ev, out,
          joined, upd, thr, pauseMark>>

\* ------------------------------------------------------------------ helpers
Max(a, b) == IF a > b THEN a ELSE b
Min(a, b) == IF a < b THEN a ELSE b

\* The Map: players.keys(), players.has(ws), players.get(ws), Array.from(players.values())
Keys(pl) == {pl[i].ws : i \in DOMAIN pl}
Has(pl, ws) == ws \in Keys(pl)
IndexOf(pl, ws) == CHOOSE i \in DOMAIN pl : pl[i].ws = ws
Get(pl, ws) == pl[IndexOf(pl, ws)].p
Roster(pl) == [i \in DOMAIN pl |-> pl[i].p]

\* ws: the channel of the event as {ws}, {} when the handler does not use it;
\* placed: the players whose candidate the event's placement loops accepted, in order
EventPlaced(type, ws, placed) == [type |-> type, ws |-> ws, placed |-> placed]
Event(type, ws) == EventPlaced(type, ws, <<>>)

\* A timer:update snapshot sent to the channels in to
TimerMsg(to, t, r, p) ==
    [type |-> "timer:update", to |-> to, timer |-> t, running |-> r,
     paused |-> p, roster |-> <<>>]

\* A roster message (players:update or players:reset) sent to every key of the Map
RosterMsg(type, pl) ==
    [type |-> type, to |-> Keys(pl), timer |-> 0, running |-> FALSE,
     paused |-> FALSE, roster |-> Roster(pl)]

\* broadcastTimer(): one snapshot to every key of the Map
broadcastTimer(pl, t, r, p) == TimerMsg(Keys(pl), t, r, p)

\* ---------------------------------------------------------------- geometry
\* The reduced hitboxes of a and b intersect
HitboxesMeet(a, b) ==
    /\ a.x < b.x + HIT_WIDTH
    /\ a.x + HIT_WIDTH > b.x
    /\ a.y < b.y + HIT_HEIGHT
    /\ a.y + HIT_HEIGHT > b.y

\* Variant: a collision test that ignores the infection flags
isCollidingAnyState(a, b) == HitboxesMeet(a, b)

isColliding(a, b) ==
    /\ a.x < b.x + HIT_WIDTH
    /\ a.x + HIT_WIDTH > b.x
    /\ a.y < b.y + HIT_HEIGHT
    /\ a.y + HIT_HEIGHT > b.y
    /\ a.isInfected # b.isInfected

isOverlapping(a, b) ==
    /\ a.x < b.x + PLAYER_SIZE
    /\ a.x + PLAYER_SIZE > b.x
    /\ a.y < b.y + PLAYER_SIZE
    /\ a.y + PLAYER_SIZE > b.y

\* base + Math.random() * width, for Math.random() = n/RandDen
Rnd(n, width) == (n * width) \div RandDen

CENTER_ZONE == [x |-> ARENA_WIDTH \div 2 - 100, y |-> ARENA_HEIGHT \div 2 - 75,
                width |-> CENTER_WIDTH, height |-> CENTER_HEIGHT]

\* The draws of one placement attempt that the model explores:
\* <<rx, ry>> for the centre zone, <<edge, r1, r2>> for the edge bands.
CenterDraws == {<<1, 1>>, <<3, 3>>}
EdgeDraws == {<<2, 0, 0>>, <<2, 3, 0>>}

CenterCandidate(d) ==
    [x |-> CENTER_ZONE.x + Rnd(d[1], CENTER_ZONE.width),
     y |-> CENTER_ZONE.y + Rnd(d[2], CENTER_ZONE.height)]

EdgeCandidate(d) ==
    CASE d[1] = 0 ->
           [x |-> EDGE_MARGIN + Rnd(d[2], ARENA_WIDTH - 2 * EDGE_MARGIN - PLAYER_SIZE),
            y |-> Rnd(d[3], EDGE_MARGIN)]
      [] d[1] = 1 ->
           [x |-> EDGE_MARGIN + Rnd(d[2], ARENA_WIDTH - 2 * EDGE_MARGIN - PLAYER_SIZE),
            y |-> ARENA_HEIGHT - EDGE_MARGIN - PLAYER_SIZE + Rnd(d[3], EDGE_MARGIN)]
      [] d[1] = 2 ->
           [x |-> Rnd(d[2], EDGE_MARGIN),
            y |-> EDGE_MARGIN + Rnd(d[3], ARENA_HEIGHT - 2 * EDGE_MARGIN - PLAYER_SIZE)]
      [] OTHER ->
           [x |-> ARENA_WIDTH - EDGE_MARGIN - PLAYER_SIZE + Rnd(d[2], EDGE_MARGIN),
            y |-> EDGE_MARGIN + Rnd(d[3], ARENA_HEIGHT - 2 * EDGE_MARGIN - PLAYER_SIZE)]

Candidates(isInfected) ==
    IF isInfected THEN {CenterCandidate(d) : d \in CenterDraws}
    ELSE {EdgeCandidate(d) : d \in EdgeDraws}

NotPlaced == [placed |-> FALSE, x |-> 0, y |-> 0]
PlacedAt(c) == [placed |-> TRUE, x |-> c.x, y |-> c.y]

\* Variant: a placement that accepts its first candidate
OverlapsNever(c, placedPlayers) == FALSE

Overlaps(c, placedPlayers) ==
    \E i \in DOMAIN placedPlayers : isOverlapping(c, placedPlayers[i])

\* The while (!placed && attempts < MAX_SPAWN_ATTEMPTS) loop: the set of its
\* possible results.  failed is the number of attempts that drew an overlapping
\* candidate before the loop ended: the loop ends placed at a free candidate
\* after fewer than MAX_SPAWN_ATTEMPTS failures, or unplaced after that many.
PlacementLoop(cands, placedPlayers) ==
    LET free == {k \in cands : ~Overlaps(k, placedPlayers)}
        taken == cands \ free
    IN UNION {IF failed >= MAX_SPAWN_ATTEMPTS THEN {NotPlaced}
              ELSE {PlacedAt(c) : c \in free} :
              failed \in {n \in 0..MAX_SPAWN_ATTEMPTS : n = 0 \/ taken # {}}}

\* join: the position given to the joining player, fallback included
JoinFallback(isInfected) ==
    IF isInfected
    THEN [x |-> ARENA_WIDTH \div 2 - PLAYER_SIZE \div 2,
          y |-> ARENA_HEIGHT \div 2 - PLAYER_SIZE \div 2]
    ELSE [x |-> EDGE_MARGIN, y |-> EDGE_MARGIN]

JoinPosition(r, isInfected) ==
    IF r.placed THEN [x |-> r.x, y |-> r.y] ELSE JoinFallback(isInfected)

\* ------------------------------------------------------------------ history
\* upd: kind and time of the last players:update broadcast that had a recipient:
\* "immediate" from a handler's direct call, "throttled" from broadcastPlayers()
\* or its timeout.
NoUpdate == [kind |-> "none", time |-> 0]
NoteUpdate(kind, pl) ==
    upd' = IF env.watch /\ pl # <<>> THEN [kind |-> kind, time |-> now] ELSE upd

\* thr: tLast, tPrev: the times of the last two calls of broadcastPlayers() with no
\* immediate-path roster broadcast since (0: none); eLast, ePrev: the players:update
\* emissions since each (its own included); pendingAtLast: broadcastPending when the
\* last call came; trigRoster: the roster after the last call; payload: the roster
\* of the last emission.
NoRequest == [tPrev |-> 0, tLast |-> 0, ePrev |-> 0, eLast |-> 0,
              pendingAtLast |-> FALSE, trigRoster |-> <<>>, payload |-> <<>>]
NoteRequest(emits, roster) ==
    LET e == IF emits THEN 1 ELSE 0
    IN thr' = IF ~env.watch THEN thr
              ELSE [tPrev |-> thr.tLast, tLast |-> now, ePrev |-> thr.eLast + e,
                    eLast |-> e, pendingAtLast |-> broadcastPending,
                    trigRoster |-> roster,
                    payload |-> IF emits THEN roster ELSE thr.payload]
NoteDeferred(roster) ==
    thr' = IF thr.tLast = 0 THEN thr
           ELSE [thr EXCEPT !.ePrev = @ + 1, !.eLast = @ + 1, !.payload = roster]

\* A roster broadcast made directly by a handler
NoteImmediate(type) ==
    /\ IF type = "players:update" THEN NoteUpdate("immediate", players') ELSE UNCHANGED upd
    /\ thr' = NoRequest

\* pauseMark: at is the counter when the running round was paused; state follows
\* the pause: "paused", "resumed", then "ticked" after the first tick that follows.
\* skipped: the ticks that fired while it was paused.  A collision that sets the
\* flag while no round is running is marked "held" until resumeTimer() or
\* stopTimer() runs.
NoMark == [at |-> 0, state |-> "none", skipped |-> 0]
MarkPause(hit) ==
    pauseMark' = IF hit /\ ~gamePaused
                 THEN [at |-> gameTimer, state |-> IF gameRunning THEN "paused" ELSE "held",
                       skipped |-> 0]
                 ELSE pauseMark
MarkStart == pauseMark' = IF pauseMark.state = "held" THEN pauseMark ELSE NoMark
MarkSkip ==
    pauseMark' = IF pauseMark.state = "paused" THEN [pauseMark EXCEPT !.skipped = @ + 1]
                 ELSE pauseMark
MarkResume ==
    pauseMark' = IF pauseMark.state = "paused" THEN [pauseMark EXCEPT !.state = "resumed"]
                 ELSE IF pauseMark.state = "held" THEN NoMark
                 ELSE pauseMark
MarkTick ==
    pauseMark' = IF pauseMark.state = "resumed" THEN [pauseMark EXCEPT !.state = "ticked"]
                 ELSE IF pauseMark.state = "ticked" THEN NoMark
                 ELSE pauseMark
MarkExpiry ==
    pauseMark' = IF pauseMark.state = "resumed" THEN [pauseMark EXCEPT !.state = "ticked"]
                 ELSE NoMark

\* ---------------------------------------------------------------- the state
InitIn(e) ==
    /\ env = e
    /\ connected = {}
    /\ players = <<>>
    /\ gameTimer = ROUND_SECONDS
    /\ gameRunning = FALSE
    /\ gamePaused = FALSE
    /\ timerInterval = FALSE
    /\ intervals = 0
    /\ now = StartTime
    /\ lastBroadcastTime = 0
    /\ broadcastPending = FALSE
    /\ broadcastTimeout = {}
    /\ timeouts = <<>>
    /\ nMsgs = 0
    /\ nTicks = 0
    /\ ev = Event("init", {})
    /\ out = <<>>
    /\ joined = {}
    /\ upd = NoUpdate
    /\ thr = NoRequest
    /\ pauseMark = NoMark

\* ------------------------------------------------------------- round timer
\* startTimer(): a no-op when the handle is set
startTimer ==
    IF timerInterval
    THEN /\ UNCHANGED <<timerVars, pauseMark>>
         /\ out' = <<>>
    ELSE /\ gameRunning' = TRUE
         /\ gamePaused' = FALSE
         /\ timerInterval' = TRUE
         /\ intervals' = intervals + 1
         /\ UNCHANGED gameTimer
         /\ out' = <<broadcastTimer(players, gameTimer, TRUE, FALSE)>>
         /\ MarkStart

\* Variant: stopTimer() that forgets the handle without clearing the interval
ClearIntervalLeaks == intervals

\* clearInterval(timerInterval) inside stopTimer(): the live intervals left
ClearInterval == IF timerInterval THEN intervals - 1 ELSE intervals

\* Variant: a stopTimer() that leaves the counter where it is
stopTimerKeepsCounter ==
    /\ intervals' = ClearInterval
    /\ timerInterval' = FALSE
    /\ gameRunning' = FALSE
    /\ gamePaused' = FALSE
    /\ UNCHANGED gameTimer
    /\ out' = <<broadcastTimer(players, gameTimer, FALSE, FALSE)>>
    /\ pauseMark' = NoMark

\* stopTimer() as the game:stop handler calls it
stopTimer ==
    /\ intervals' = ClearInterval
    /\ timerInterval' = FALSE
    /\ gameRunning' = FALSE
    /\ gamePaused' = FALSE
    /\ gameTimer' = ROUND_SECONDS
    /\ out' = <<broadcastTimer(players, ROUND_SECONDS, FALSE, FALSE)>>
    /\ pauseMark' = NoMark

\* The snapshots of the expiring tick: the decremented counter t, then
\* stopTimer()'s own broadcast, then the broadcast after gameTimer = 20.
ExpirySends(t) ==
    <<broadcastTimer(players, t, gameRunning, gamePaused),
      broadcastTimer(players, ROUND_SECONDS, FALSE, FALSE),
      broadcastTimer(players, ROUND_SECONDS, FALSE, FALSE)>>

\* Variant: a callback without the paused check
TickSkipsNever == FALSE

\* if (gamePaused) return
TickSkips == gamePaused

\* The setInterval callback
Tick ==
    /\ intervals > 0
    /\ nTicks < env.ticks
    /\ nTicks' = nTicks + 1
    /\ ev' = Event("tick", {})
    /\ IF TickSkips
       THEN /\ UNCHANGED timerVars
            /\ out' = <<>>
            /\ MarkSkip
       ELSE IF gameTimer - 1 <= 0
            THEN /\ intervals' = ClearInterval
                 /\ timerInterval' = FALSE
                 /\ gameRunning' = FALSE
                 /\ gamePaused' = FALSE
                 /\ gameTimer' = ROUND_SECONDS
                 /\ out' = ExpirySends(gameTimer - 1)
                 /\ MarkExpiry
            ELSE /\ gameTimer' = gameTimer - 1
                 /\ out' = <<broadcastTimer(players, gameTimer - 1, gameRunning, gamePaused)>>
                 /\ UNCHANGED <<gameRunning, gamePaused, timerInterval, intervals>>
                 /\ MarkTick
    /\ UNCHANGED <<connected, players, now, throttleVars, env, nMsgs, joined, upd, thr>>

\* ------------------------------------------------------- roster broadcasts
\* broadcastPlayersImmediate(type) called by a handler: the timestamp.
\* (The message is the handler's RosterMsg.)
broadcastPlayersImmediate(type) ==
    /\ lastBroadcastTime' = now
    /\ UNCHANGED <<broadcastPending, broadcastTimeout, timeouts>>
    /\ NoteImmediate(type)

\* Variant: a throttle that never defers
ThrottleEmitsAlways == TRUE

\* broadcastPlayers() with the default type takes its immediate branch
ThrottleEmits == now - lastBroadcastTime >= BROADCAST_RATE

\* The live timeouts without entry i
Without(seq, i) == [k \in 1..(Len(seq) - 1) |-> IF k < i THEN seq[k] ELSE seq[k + 1]]

\* clearTimeout(handle): the live timeouts left
ClearTimeout(seq, handle) ==
    IF \E i \in DOMAIN seq : seq[i] \in handle
    THEN Without(seq, CHOOSE i \in DOMAIN seq : seq[i] \in handle)
    ELSE seq

\* Variant: a throttle that drops the requests it does not emit at once
broadcastPlayersDrops ==
    IF ThrottleEmits
    THEN /\ lastBroadcastTime' = now
         /\ broadcastPending' = FALSE
         /\ broadcastTimeout' = {}
         /\ timeouts' = ClearTimeout(timeouts, broadcastTimeout)
    ELSE UNCHANGED throttleVars

\* Variant: an immediate branch that drops the handle without clearing the timeout
broadcastPlayersLeaks ==
    IF ThrottleEmits
    THEN /\ lastBroadcastTime' = now
         /\ broadcastPending' = FALSE
         /\ broadcastTimeout' = {}
         /\ UNCHANGED timeouts
    ELSE IF ~broadcastPending
         THEN /\ broadcastPending' = TRUE
              /\ broadcastTimeout' = {now + (BROADCAST_RATE - (now - lastBroadcastTime))}
              /\ timeouts' = Append(timeouts, now + (BROADCAST_RATE - (now - lastBroadcastTime)))
              /\ UNCHANGED lastBroadcastTime
         ELSE UNCHANGED throttleVars

\* Variant: a throttle that schedules a deferred emission for every request it
\* does not emit, pending or not
broadcastPlayersReschedule ==
    IF ThrottleEmits
    THEN /\ lastBroadcastTime' = now
         /\ broadcastPending' = FALSE
         /\ broadcastTimeout' = {}
         /\ timeouts' = ClearTimeout(timeouts, broadcastTimeout)
    ELSE /\ broadcastPending' = TRUE
         /\ broadcastTimeout' = {now + (BROADCAST_RATE - (now - lastBroadcastTime))}
         /\ timeouts' = Append(timeouts, now + (BROADCAST_RATE - (now - lastBroadcastTime)))
         /\ UNCHANGED lastBroadcastTime

\* broadcastPlayers() with the default type: the throttled path
broadcastPlayers ==
    IF ThrottleEmits
    THEN /\ lastBroadcastTime' = now
         /\ broadcastPending' = FALSE
         /\ broadcastTimeout' = {}
         /\ timeouts' = ClearTimeout(timeouts, broadcastTimeout)
    ELSE IF ~broadcastPending
         THEN /\ broadcastPending' = TRUE
              /\ broadcastTimeout' = {now + (BROADCAST_RATE - (now - lastBroadcastTime))}
              /\ timeouts' = Append(timeouts, now + (BROADCAST_RATE - (now - lastBroadcastTime)))
              /\ UNCHANGED lastBroadcastTime
         ELSE UNCHANGED throttleVars

\* The setTimeout callback scheduled by broadcastPlayers(): it fires at its due
\* time or later.
DeferredBroadcast ==
    \E i \in DOMAIN timeouts :
        /\ now >= timeouts[i]
        /\ timeouts' = Without(timeouts, i)
        /\ lastBroadcastTime' = now
        /\ broadcastPending' = FALSE
        /\ broadcastTimeout' = {}
        /\ out' = <<RosterMsg("players:update", players)>>
        /\ ev' = Event("deferred", {})
        /\ NoteUpdate("throttled", players)
        /\ NoteDeferred(Roster(players))
        /\ UNCHANGED <<connected, players, timerVars, now, env, nMsgs, nTicks,
                       joined, pauseMark>>

\* Date.now() moves on: up to the last time of the run, and on to the due time
\* of a live timeout
AdvanceClock ==
    /\ \/ now + env.step <= env.time
       \/ env.watch /\ \E i \in DOMAIN timeouts : now < timeouts[i]
    /\ now' = now + env.step
    /\ ev' = Event("clock", {})
    /\ out' = <<>>
    /\ UNCHANGED <<connected, players, timerVars, throttleVars, env, nMsgs, nTicks,
                   histVars>>

\* ------------------------------------------------------------ connections
\* Connections are opaque handles: they are numbered in the order they open.
Open(ws) ==
    /\ ws \in env.chans \ connected
    /\ \A c \in env.chans : c < ws => c \in connected
    /\ connected' = connected \cup {ws}
    /\ ev' = Event("open", {ws})
    /\ out' = <<>>
    /\ UNCHANGED <<players, timerVars, now, throttleVars, env, nMsgs, nTicks, histVars>>

\* Variant: a close handler that leaves the record in the Map
DeleteKeyKeeps(pl, ws) == pl

\* players.delete(ws)
DeleteKey(pl, ws) == SelectSeq(pl, LAMBDA e : e.ws # ws)

Close(ws) ==
    /\ ws \in connected
    /\ nMsgs < env.msgs
    /\ nMsgs' = nMsgs + 1
    /\ connected' = connected \ {ws}
    /\ joined' = joined \ {ws}
    /\ players' = DeleteKey(players, ws)
    /\ broadcastPlayersImmediate("players:update")
    /\ out' = <<RosterMsg("players:update", players')>>
    /\ ev' = Event("close", {ws})
    /\ UNCHANGED <<timerVars, now, env, nTicks, pauseMark>>

\* A message arrives on the open connection ws
Receive(ws) ==
    /\ ws \in connected
    /\ nMsgs < env.msgs
    /\ nMsgs' = nMsgs + 1
    /\ UNCHANGED <<connected, now, env, nTicks>>

\* A message arrives whose handler does not read the connection it came on
ReceiveAny ==
    /\ connected # {}
    /\ nMsgs < env.msgs
    /\ nMsgs' = nMsgs + 1
    /\ UNCHANGED <<connected, now, env, nTicks>>

\* ------------------------------------------------------------------- join
\* players.set(ws, player)
SetKey(pl, ws, p) ==
    IF Has(pl, ws) THEN [pl EXCEPT ![IndexOf(pl, ws)].p = p]
    ELSE Append(pl, [ws |-> ws, p |-> p])

Join(ws, id, isInfected) ==
    /\ Receive(ws)
    /\ \E r \in PlacementLoop(Candidates(isInfected), Roster(players)) :
          LET pos == JoinPosition(r, isInfected)
              player == [id |-> id, x |-> pos.x, y |-> pos.y, isInfected |-> isInfected,
                         gender |-> Null, collidingWith |-> Null]
          IN /\ players' = SetKey(players, ws, player)
             /\ ev' = EventPlaced("join", {ws}, IF r.placed THEN <<player>> ELSE <<>>)
    /\ broadcastPlayersImmediate("players:update")
    /\ out' = <<RosterMsg("players:update", players'),
                TimerMsg({ws}, gameTimer, gameRunning, gamePaused)>>
    /\ joined' = joined \cup {ws}
    /\ UNCHANGED <<timerVars, pauseMark>>

\* ------------------------------------------------------ game:start / stop
GameStart ==
    /\ ReceiveAny
    /\ startTimer
    /\ ev' = Event("game:start", {})
    /\ UNCHANGED <<players, throttleVars, joined, upd, thr>>

GameStop ==
    /\ ReceiveAny
    /\ stopTimer
    /\ ev' = Event("game:stop", {})
    /\ UNCHANGED <<players, throttleVars, joined, upd, thr>>

\* ----------------------------------------------------------- player:gender
Genders == {"f"}

SetGender(pl, playerId, gender) ==
    [i \in DOMAIN pl |-> IF pl[i].p.id = playerId THEN [pl[i] EXCEPT !.p.gender = gender]
                         ELSE pl[i]]

\* Variant: a gender change allowed at any time
GenderLockedNever == FALSE

\* if (gameRunning) return
GenderLocked == gameRunning

PlayerGender(playerId, gender) ==
    /\ ReceiveAny
    /\ ev' = Event("player:gender", {})
    /\ UNCHANGED <<timerVars, joined, pauseMark>>
    /\ IF GenderLocked
       THEN /\ out' = <<>>
            /\ UNCHANGED <<players, throttleVars, upd, thr>>
       ELSE /\ players' = SetGender(players, playerId, gender)
            /\ broadcastPlayersImmediate("players:update")
            /\ out' = <<RosterMsg("players:update", players')>>

\* ------------------------------------------------------------------- move
\* The optional isInfected of a move: absent, true or false
InfOpt == {<<>>, <<TRUE>>, <<FALSE>>}

\* Variant: a move without the clamp
ClampNever(v, hi) == v

Clamp(v, hi) == Max(0, Min(v, hi))

\* Variant: a move that does not reset the mover's collidingWith
MovedKeepsMarker(p, d, inf) ==
    [p EXCEPT !.x = Clamp(p.x + d[1], ARENA_WIDTH - PLAYER_SIZE),
              !.y = Clamp(p.y + d[2], ARENA_HEIGHT - PLAYER_SIZE),
              !.isInfected = IF inf = <<>> THEN p.isInfected ELSE inf[1]]

\* The player after movement, clamping, infection sync and collision reset
Moved(p, d, inf) ==
    [p EXCEPT !.x = Clamp(p.x + d[1], ARENA_WIDTH - PLAYER_SIZE),
              !.y = Clamp(p.y + d[2], ARENA_HEIGHT - PLAYER_SIZE),
              !.isInfected = IF inf = <<>> THEN p.isInfected ELSE inf[1],
              !.collidingWith = Null]

\* Variant: a collision recorded on the mover only
CollideOneSided(pl, i, j) == [pl EXCEPT ![i].p.collidingWith = pl[j].p.id]

\* The effect of one detected collision on the two records (entries i and j)
Collide(pl, i, j) ==
    [pl EXCEPT ![i].p.collidingWith = pl[j].p.id,
               ![j].p.collidingWith = pl[i].p.id]

\* for (const [otherWs, otherPlayer] of players.entries()): from entry j on,
\* for the mover at entry i.  Result: the Map and the channels collided with, in order.
RECURSIVE CollisionLoop(_, _, _, _)
CollisionLoop(pl, i, j, hits) ==
    IF j > Len(pl) THEN [pl |-> pl, hits |-> hits]
    ELSE IF j = i THEN CollisionLoop(pl, i, j + 1, hits)
    ELSE IF isColliding(pl[i].p, pl[j].p)
         THEN CollisionLoop(Collide(pl, i, j), i, j + 1, Append(hits, pl[j].ws))
         ELSE CollisionLoop(pl, i, j + 1, hits)

\* pauseTimer(), called once per collision: the snapshots sent
PauseSends(hits) ==
    [k \in 1..Len(hits) |-> broadcastTimer(players, gameTimer, gameRunning, TRUE)]

\* Variant: a pauseTimer() that does not set the flag
pauseTimerKeeps(hits) ==
    /\ UNCHANGED <<gameTimer, gameRunning, gamePaused, timerInterval, intervals>>
    /\ MarkPause(hits # <<>>)

\* pauseTimer(), called once per collision: the timer afterwards
pauseTimer(hits) ==
    /\ gamePaused' = (IF hits = <<>> THEN gamePaused ELSE TRUE)
    /\ UNCHANGED <<gameTimer, gameRunning, timerInterval, intervals>>
    /\ MarkPause(hits # <<>>)

Move(ws, d, inf) ==
    /\ Receive(ws)
    /\ ev' = Event("move", {ws})
    /\ UNCHANGED joined
    /\ IF ~Has(players, ws)
       THEN /\ out' = <<>>
            /\ UNCHANGED <<players, timerVars, throttleVars, upd, thr, pauseMark>>
       ELSE LET i == IndexOf(players, ws)
                start == [players EXCEPT ![i].p = Moved(players[i].p, d, inf)]
                res == CollisionLoop(start, i, 1, <<>>)
            IN /\ players' = res.pl
               /\ pauseTimer(res.hits)
               /\ broadcastPlayers
               /\ out' = PauseSends(res.hits) \o
                         (IF ThrottleEmits
                          THEN <<RosterMsg("players:update", players')>>
                          ELSE <<>>)
               /\ IF ThrottleEmits THEN NoteUpdate("throttled", players) ELSE UNCHANGED upd
               /\ NoteRequest(ThrottleEmits, Roster(players'))

\* ------------------------------------------------------------ reset sweep
\* A player placed by the sweep
Replaced(p, r) == [p EXCEPT !.x = r.x, !.y = r.y, !.collidingWith = Null]

\* One group of resetAllPositions(): every way the loop over group (the indices
\* of its entries, in Map order) can end.  A player whose attempts are exhausted
\* is left as it is and is not pushed to placedPlayers.
RECURSIVE PlaceGroup(_, _, _, _)
PlaceGroup(pl, placedPlayers, group, isInfected) ==
    IF group = <<>> THEN {<<pl, placedPlayers>>}
    ELSE LET i == Head(group)
         IN UNION {
              IF r.placed
              THEN PlaceGroup([pl EXCEPT ![i].p = Replaced(pl[i].p, r)],
                              Append(placedPlayers, Replaced(pl[i].p, r)),
                              Tail(group), isInfected)
              ELSE PlaceGroup(pl, placedPlayers, Tail(group), isInfected)
              : r \in PlacementLoop(Candidates(isInfected), placedPlayers)}

Indices(pl) == [i \in DOMAIN pl |-> i]

resetAllPositions(pl) ==
    LET infectedPlayers == SelectSeq(Indices(pl), LAMBDA i : pl[i].p.isInfected)
        regularPlayers == SelectSeq(Indices(pl), LAMBDA i : ~pl[i].p.isInfected)
    IN UNION {PlaceGroup(i[1], i[2], regularPlayers, FALSE) :
                 i \in PlaceGroup(pl, <<>>, infectedPlayers, TRUE)}

\* resumeTimer(), after the sends made before it in the same handler
resumeTimer(sentBefore) ==
    /\ gamePaused' = FALSE
    /\ UNCHANGED <<gameTimer, gameRunning, timerInterval, intervals>>
    /\ out' = Append(sentBefore, broadcastTimer(players', gameTimer, gameRunning, FALSE))
    /\ MarkResume

Infect(pl, playerId) ==
    [i \in DOMAIN pl |-> IF pl[i].p.id = playerId THEN [pl[i] EXCEPT !.p.isInfected = TRUE]
                         ELSE pl[i]]

PlayerInfect(playerId) ==
    /\ ReceiveAny
    /\ \E o \in resetAllPositions(Infect(players, playerId)) :
          /\ players' = o[1]
          /\ ev' = EventPlaced("player:infect", {}, o[2])
    /\ broadcastPlayersImmediate("players:reset")
    /\ resumeTimer(<<RosterMsg("players:reset", players')>>)
    /\ UNCHANGED joined

AnswerCorrect ==
    /\ ReceiveAny
    /\ \E o \in resetAllPositions(players) :
          /\ players' = o[1]
          /\ ev' = EventPlaced("answer:correct", {}, o[2])
    /\ broadcastPlayersImmediate("players:reset")
    /\ resumeTimer(<<RosterMsg("players:reset", players')>>)
    /\ UNCHANGED joined

\* answer:feedback: the payload is relayed to every key of the Map
FeedbackMsg(pl, playerId, isCorrect) ==
    [type |-> "answer:feedback", to |-> Keys(pl), timer |-> 0, running |-> isCorrect,
     paused |-> FALSE, roster |-> <<playerId>>]

AnswerFeedback(playerId, isCorrect) ==
    /\ ReceiveAny
    /\ ev' = Event("answer:feedback", {})
    /\ out' = <<FeedbackMsg(players, playerId, isCorrect)>>
    /\ UNCHANGED <<players, timerVars, throttleVars, histVars>>

\* ------------------------------------------------------------------- spec
Next ==
    \/ \E ws \in Channels : Open(ws)
    \/ \E ws \in Channels : Close(ws)
    \/ \E ws \in Channels, isInfected \in BOOLEAN : Join(ws, ClientId[ws], isInfected)
    \/ GameStart
    \/ GameStop
    \/ \E id \in Ids, g \in Genders : PlayerGender(id, g)
    \/ \E ws \in Channels, d \in env.moves, inf \in InfOpt : Move(ws, d, inf)
    \/ \E id \in Ids : PlayerInfect(id)
    \/ AnswerCorrect
    \/ \E id \in Ids : AnswerFeedback(id, TRUE)
    \/ Tick
    \/ DeferredBroadcast
    \/ AdvanceClock

\* Runs of two connections
Spec == InitIn(Duel) /\ [][Next]_vars
\* Runs of one connection long enough for a round to expire
SpecRound == InitIn(Round) /\ [][Next]_vars
\* Runs of one connection with a fine clock
SpecThrottle == InitIn(Throttle) /\ [][Next]_vars
\* The same runs when time goes on and a due timeout fires
SpecThrottleFair ==
    /\ InitIn(Throttle)
    /\ [][Next]_vars
    /\ WF_vars(AdvanceClock)
    /\ WF_vars(DeferredBroadcast)
\* Runs of three connections
SpecCrowd == InitIn(Crowd) /\ [][Next]_vars
\* Runs of one connection with more ways to move
SpecWalk == InitIn(Walk) /\ [][Next]_vars

\* ------------------------------------------------------------ round timer
Idle == ~gameRunning /\ ~gamePaused /\ gameTimer = ROUND_SECONDS
Running == gameRunning /\ ~gamePaused
Paused == gameRunning /\ gamePaused

\* C1: in every reachable state the round timer is in one of the states Idle
\* (not running, not paused, counter 20), Running (running, not paused) or Paused
\* (running and paused); in particular paused implies running.
C1_TimerInOneOfThreeStates == Idle \/ Running \/ Paused

\* The timer:update snapshots of the last step that channel c received
SnapshotsTo(c) ==
    {k \in DOMAIN out : out[k].type = "timer:update" /\ c \in out[k].to}
ResetSnapshotsTo(c) ==
    {k \in SnapshotsTo(c) :
        out[k].timer = ROUND_SECONDS /\ ~out[k].running /\ ~out[k].paused}

\* The last step was the tick on which the round expired
Expired == ev.type = "tick" /\ ~gameRunning

\* C2: when the counter reaches 0 on a tick the recurring tick is stopped, the
\* timer is reset to {20, false, false}, and every channel receives exactly one
\* snapshot carrying the reset state after the one reporting the decremented counter.
C2_OneResetSnapshotOnExpiry ==
    Expired => /\ intervals = 0 /\ ~timerInterval
               /\ Idle
               /\ \A c \in Keys(players) : Cardinality(ResetSnapshotsTo(c)) = 1

\* C6: the tick handle is set only while running, at most one recurring tick
\* exists, and while the timer is not running no tick fires and the counter does
\* not change.
C6_NoTickUnlessRunning ==
    /\ [](/\ timerInterval <=> gameRunning
          /\ intervals = (IF gameRunning THEN 1 ELSE 0))
    /\ [][~gameRunning => nTicks' = nTicks /\ gameTimer' = gameTimer]_vars

\* A round expired by its own ticks and nothing is left ticking
C6_Witness == Expired /\ nTicks >= ROUND_SECONDS /\ intervals = 0

\* C7: a tick that fires while paused changes nothing of the timer and sends
\* nothing; pausing leaves the recurring tick alive; the first tick after the
\* resume decrements the counter from the value it had when paused.
C7_PausedTicksAreNoOps ==
    /\ [](pauseMark.state = "ticked" =>
            IF pauseMark.at - 1 <= 0 THEN Idle ELSE gameTimer = pauseMark.at - 1)
    /\ [][/\ (nTicks' = nTicks + 1 /\ gamePaused) =>
                (gameTimer' = gameTimer /\ gamePaused' /\ out' = <<>>)
          /\ (~gamePaused /\ gamePaused') =>
                (intervals' = intervals /\ timerInterval' = timerInterval)]_vars

\* A round was paused, a tick fired while it was, it was resumed and then ticked
C7_Witness ==
    /\ ev.type = "tick"
    /\ pauseMark.state = "ticked"
    /\ pauseMark.skipped > 0
    /\ gameTimer = pauseMark.at - 1

\* ----------------------------------------------------------------- registry
Entries(c) == {i \in DOMAIN players : players[i].ws = c}

\* C5 as stated: every connected channel has exactly one Player record.
C5_EveryConnectedChannelHasARecord ==
    \A c \in connected : Cardinality(Entries(c)) = 1

\* C5, amended: a channel has exactly one Player record from its join until it
\* closes, and none before its join or after its close.
C5_EveryJoinedChannelHasARecord ==
    /\ joined \subseteq connected
    /\ \A c \in Channels : Cardinality(Entries(c)) = (IF c \in joined THEN 1 ELSE 0)

\* One channel has joined, another is open and has not
C5_Witness == joined # {} /\ connected \ joined # {}

\* -------------------------------------------------------------- collisions
\* The last step handled a move of a registered player
MoveHandled == ev.type = "move" /\ ev.ws # {} /\ ev.ws \subseteq Keys(players)
MoverIndex == IndexOf(players, CHOOSE w \in ev.ws : TRUE)
\* The entries the mover collides with
HitIndices ==
    {j \in DOMAIN players :
        j # MoverIndex /\ isColliding(players[MoverIndex].p, players[j].p)}

\* C8 as stated: after a move every player q the mover p collided with has
\* q.collidingWith = p.id and p.collidingWith = q.id, several collisions included.
C8_BothSidesNameEachOther ==
    MoveHandled =>
        \A j \in HitIndices :
            /\ players[j].p.collidingWith = players[MoverIndex].p.id
            /\ players[MoverIndex].p.collidingWith = players[j].p.id

\* C8, amended: every q the mover p collided with has q.collidingWith = p.id, and
\* p.collidingWith is the id of the last such q in the registry's order.
C8_MoverNamesTheLastCollision ==
    MoveHandled =>
        /\ \A j \in HitIndices :
              players[j].p.collidingWith = players[MoverIndex].p.id
        /\ \A j \in HitIndices :
              (\A k \in HitIndices : k <= j) =>
                  players[MoverIndex].p.collidingWith = players[j].p.id

\* The mover collided with two players of different ids
C8_Witness ==
    /\ MoveHandled
    /\ \E j, k \in HitIndices : players[j].p.id # players[k].p.id

\* C10: after a move that makes the mover collide with an opposite-state player
\* the timer has paused = true, and every registered channel was sent a
\* timer:update with paused = true.
C10_CollisionPauses ==
    (MoveHandled /\ HitIndices # {}) =>
        /\ gamePaused
        /\ \A c \in Keys(players) : \E k \in SnapshotsTo(c) : out[k].paused

\* A colliding move paused a round that was running and not paused
C10_Witness ==
    /\ MoveHandled /\ HitIndices # {}
    /\ Paused
    /\ pauseMark.state = "paused" /\ pauseMark.skipped = 0
    /\ Len(out) > 0

\* -------------------------------------------------------------- reset sweep
InCenterZone(p) ==
    /\ p.x >= CENTER_ZONE.x /\ p.x <= CENTER_ZONE.x + CENTER_ZONE.width
    /\ p.y >= CENTER_ZONE.y /\ p.y <= CENTER_ZONE.y + CENTER_ZONE.height

InEdgeBand(p) ==
    LET spanX == ARENA_WIDTH - 2 * EDGE_MARGIN - PLAYER_SIZE
        spanY == ARENA_HEIGHT - 2 * EDGE_MARGIN - PLAYER_SIZE
        farX == ARENA_WIDTH - EDGE_MARGIN - PLAYER_SIZE
        farY == ARENA_HEIGHT - EDGE_MARGIN - PLAYER_SIZE
        acrossX == p.x >= EDGE_MARGIN /\ p.x <= EDGE_MARGIN + spanX
        acrossY == p.y >= EDGE_MARGIN /\ p.y <= EDGE_MARGIN + spanY
    IN \/ acrossX /\ p.y >= 0 /\ p.y <= EDGE_MARGIN
       \/ acrossX /\ p.y >= farY /\ p.y <= farY + EDGE_MARGIN
       \/ acrossY /\ p.x >= 0 /\ p.x <= EDGE_MARGIN
       \/ acrossY /\ p.x >= farX /\ p.x <= farX + EDGE_MARGIN

AtFallback(p) ==
    p.x = JoinFallback(p.isInfected).x /\ p.y = JoinFallback(p.isInfected).y

\* C9: after player:infect or answer:correct is handled every infected player is
\* in the centre rectangle or at the centre fallback and every healthy player is
\* in an edge band or at the corner fallback: nobody keeps its old position
\* because the attempts were exhausted.
C9_SweepPlacesEveryone ==
    ev.type \in {"player:infect", "answer:correct"} =>
        \A i \in DOMAIN players :
            \/ AtFallback(players[i].p)
            \/ IF players[i].p.isInfected THEN InCenterZone(players[i].p)
               ELSE InEdgeBand(players[i].p)

\* ---------------------------------------------------------------- throttle
\* Two successive requests to broadcastPlayers() whose emissions are all out
Settled == thr.tPrev > 0 /\ ~broadcastPending

\* C3 as stated: two requests less than 50 ms apart yield exactly one emission,
\* carrying the roster after the later request; two requests at least 50 ms apart
\* yield exactly two.
C3_GapDecidesEmissions ==
    Settled =>
        IF thr.tLast - thr.tPrev < BROADCAST_RATE
        THEN thr.ePrev = 1 /\ thr.payload = thr.trigRoster
        ELSE thr.ePrev = 2

\* C3, amended: two successive requests yield exactly one emission when a deferred
\* emission was pending as the second arrived, and two otherwise; the last
\* emission carries the roster after the later request.
C3_PendingDecidesEmissions ==
    Settled =>
        /\ thr.ePrev = (IF thr.pendingAtLast THEN 1 ELSE 2)
        /\ thr.payload = thr.trigRoster

\* Two requests less than 50 ms apart were coalesced into one deferred emission
C3_Witness ==
    /\ Settled
    /\ ev.type = "deferred"
    /\ thr.pendingAtLast
    /\ thr.tLast - thr.tPrev < BROADCAST_RATE
    /\ thr.ePrev = 1

\* The step sends a players:update to some channel
EmitsUpdate ==
    \E k \in DOMAIN out' : out'[k].type = "players:update" /\ out'[k].to # {}
\* The step is one of the throttled path: a move or the deferred callback
ThrottledStep == ev'.type \in {"move", "deferred"}

\* C4 as stated: two consecutive players:update broadcasts of which at least one
\* comes from the throttled path are at least 50 ms apart.
C4_GapAroundThrottled ==
    [][(EmitsUpdate /\ upd.kind # "none" /\ (upd.kind = "throttled" \/ ThrottledStep))
          => now' - upd.time >= BROADCAST_RATE]_vars

\* C4, amended: two consecutive players:update broadcasts that both come from the
\* throttled path are at least 50 ms apart.
C4_GapBetweenThrottled ==
    [][(EmitsUpdate /\ upd.kind = "throttled" /\ ThrottledStep)
          => now' - upd.time >= BROADCAST_RATE]_vars

\* Two throttled emissions in a row, the second one just sent
C4_Witness ==
    /\ ev.type \in {"move", "deferred"}
    /\ upd.kind = "throttled" /\ upd.time = now
    /\ thr.eLast = 1 /\ thr.ePrev = 2

\* ---------------------------------------------------------------- movement
\* C11: after a move handled for a registered channel the mover's position has
\* 0 <= x <= ARENA_WIDTH - 64 and 0 <= y <= ARENA_HEIGHT - 64, whatever dx and dy.
C11_MoverStaysInArena ==
    MoveHandled =>
        /\ players[MoverIndex].p.x \in 0..(ARENA_WIDTH - PLAYER_SIZE)
        /\ players[MoverIndex].p.y \in 0..(ARENA_HEIGHT - PLAYER_SIZE)

\* A move was clamped at the right edge and at the top edge
C11_Witness ==
    /\ MoveHandled
    /\ players[MoverIndex].p.x = ARENA_WIDTH - PLAYER_SIZE
    /\ players[MoverIndex].p.y = 0

\* The step handles a move of a registered channel
MoveStep ==
    nMsgs' = nMsgs + 1 /\ ev'.type = "move" /\ ev'.ws # {} /\ ev'.ws \subseteq Keys(players)

\* C12: a move sets no collidingWith between, and does not pause the timer for, a
\* pair whose isInfected flags are equal when checked (the mover's flag being the
\* one after the move's optional overwrite), whether or not their hitboxes meet.
C12_SameStateNeverCollides ==
    [][MoveStep =>
        LET m == IndexOf(players', CHOOSE w \in ev'.ws : TRUE)
            others == DOMAIN players' \ {m}
            Same(j) == players'[j].p.isInfected = players'[m].p.isInfected
        IN /\ \A j \in others : Same(j) => players'[j] = players[j]
           /\ players'[m].p.collidingWith # Null =>
                 \E j \in others :
                    ~Same(j) /\ players'[j].p.id = players'[m].p.collidingWith
           /\ (\A j \in others : Same(j)) =>
                 /\ gamePaused' = gamePaused
                 /\ \A k \in DOMAIN out' : out'[k].type # "timer:update"]_vars

\* A move ended on top of a player of the same state and nothing came of it
C12_Witness ==
    /\ MoveHandled
    /\ ~gamePaused
    /\ players[MoverIndex].p.collidingWith = Null
    /\ \E j \in DOMAIN players :
          /\ j # MoverIndex
          /\ HitboxesMeet(players[MoverIndex].p, players[j].p)
          /\ players[j].p.isInfected = players[MoverIndex].p.isInfected
          /\ players[j].p.collidingWith = Null

\* ------------------------------------------------------------ player:gender
\* The step handles a player:gender message
GenderStep == nMsgs' = nMsgs + 1 /\ ev'.type = "player:gender"

\* C13: a player:gender message received while the round is running changes no
\* record and sends nothing; received while it is not running it sets the gender
\* of every record whose id is the message's playerId, leaves the others as they
\* are, and broadcasts the roster at once.
C13_GenderOnlyBeforeTheRound ==
    [][GenderStep =>
        IF gameRunning
        THEN /\ players' = players
             /\ out' = <<>>
             /\ UNCHANGED throttleVars
        ELSE /\ \E id \in Ids, g \in Genders :
                   /\ DOMAIN players' = DOMAIN players
                   /\ \A i \in DOMAIN players :
                         players'[i] = IF players[i].p.id = id
                                       THEN [players[i] EXCEPT !.p.gender = g]
                                       ELSE players[i]
             /\ out' = <<RosterMsg("players:update", players')>>
             /\ lastBroadcastTime' = now]_vars

\* A gender message changed two records of the same id and was broadcast
C13_Witness ==
    /\ ev.type = "player:gender"
    /\ ~gameRunning
    /\ Len(out) = 1 /\ out[1].type = "players:update"
    /\ \E i, j \in DOMAIN players :
          /\ i # j
          /\ players[i].p.id = players[j].p.id
          /\ players[i].p.gender \in Genders
          /\ players[j].p.gender \in Genders
    /\ \E i \in DOMAIN players : players[i].p.gender = Null

\* The set of the due times of the live timeouts
Scheduled == {timeouts[i] : i \in DOMAIN timeouts}

\* C14: at most one deferred emission is outstanding; broadcastPending is true
\* exactly when one is scheduled, and the handle is the scheduled callback; a
\* scheduled callback is not replaced or rescheduled: it goes when it fires or
\* when a move takes the immediate branch, and only a move schedules one.
C14_OneDeferredEmission ==
    /\ [](/\ Len(timeouts) <= 1
          /\ broadcastPending <=> (Len(timeouts) = 1)
          /\ broadcastTimeout = Scheduled)
    /\ [][/\ (timeouts # <<>> /\ timeouts' # <<>>) => timeouts' = timeouts
          /\ (timeouts # <<>> /\ timeouts' = <<>>) =>
                \/ ev'.type = "deferred"
                \/ ev'.type = "move" /\ ThrottleEmits
          /\ (timeouts = <<>> /\ timeouts' # <<>>) =>
                ev'.type = "move" /\ ~ThrottleEmits]_vars

\* A move arrived while a deferred emission was pending and it still is
C14_Witness ==
    /\ ev.type = "move"
    /\ thr.pendingAtLast
    /\ broadcastPending
    /\ Len(timeouts) = 1

\* C15: after player:infect or answer:correct is handled every player of the
\* roster has collidingWith = null.
C15_SweepClearsEveryMarker ==
    ev.type \in {"player:infect", "answer:correct"} =>
        \A i \in DOMAIN players : players[i].p.collidingWith = Null

\* C16: after a move that produces no collision the mover's collidingWith is
\* null, and a move leaves the record of every player it did not collide with as
\* it was, a marker naming the mover included.
C16_MoveResetsOnlyTheMover ==
    [][MoveStep =>
        LET m == IndexOf(players', CHOOSE w \in ev'.ws : TRUE)
            hits == {j \in DOMAIN players' \ {m} :
                        isColliding(players'[m].p, players'[j].p)}
        IN /\ hits = {} => players'[m].p.collidingWith = Null
           /\ \A j \in DOMAIN players' \ (hits \cup {m}) : players'[j] = players[j]]_vars

\* The mover moved away without colliding and another player still names it
C16_Witness ==
    /\ MoveHandled
    /\ HitIndices = {}
    /\ players[MoverIndex].p.collidingWith = Null
    /\ \E j \in DOMAIN players :
          /\ j # MoverIndex
          /\ players[j].p.collidingWith = players[MoverIndex].p.id
          /\ ~HitboxesMeet(players[MoverIndex].p, players[j].p)

\* --------------------------------------------------------------- placement
JoinStep == nMsgs' = nMsgs + 1 /\ ev'.type = "join"
SweepStep == nMsgs' = nMsgs + 1 /\ ev'.type \in {"player:infect", "answer:correct"}
SameSpot(a, b) == a.x = b.x /\ a.y = b.y

\* C17: a candidate accepted by a join does not overlap, as 64x64 squares, any
\* player that was in the roster when the join was handled, and it is the joining
\* player's position; the candidates accepted by one reset sweep do not overlap
\* each other, infected or healthy, and are the positions of the players placed.
C17_AcceptedCandidatesOverlapNobody ==
    [][/\ JoinStep =>
             \A k \in DOMAIN ev'.placed :
                /\ \A i \in DOMAIN players : ~isOverlapping(ev'.placed[k], players[i].p)
                /\ \E w \in ev'.ws : SameSpot(Get(players', w), ev'.placed[k])
       /\ SweepStep =>
             /\ \A a, b \in DOMAIN ev'.placed :
                   a # b => ~isOverlapping(ev'.placed[a], ev'.placed[b])
             /\ \A a \in DOMAIN ev'.placed :
                   \E i \in DOMAIN players' : players'[i].p = ev'.placed[a]]_vars

\* A sweep accepted candidates for infected and for healthy players
C17_Witness ==
    /\ ev.type \in {"player:infect", "answer:correct"}
    /\ \E a, b \in DOMAIN ev.placed :
          ev.placed[a].isInfected /\ ~ev.placed[b].isInfected
    /\ Len(ev.placed) = Len(players)

\* ------------------------------------------------------------- the counter
TickStep == nTicks' = nTicks + 1
StartStep == nMsgs' = nMsgs + 1 /\ ev'.type = "game:start"

\* C18: the counter is within 1..20 in every state and is 20 whenever the timer is
\* not running; a game:start that starts a round starts it at 20, running and not
\* paused, and the first tick of an unpaused round gives {19, true, false}; a
\* counter of 0 shows only in the first snapshot of the expiring tick.
C18_CounterRange ==
    /\ [](/\ gameTimer \in 1..ROUND_SECONDS
          /\ ~gameRunning => gameTimer = ROUND_SECONDS
          /\ \A k \in DOMAIN out :
                (out[k].type = "timer:update" /\ out[k].timer <= 0) =>
                    (Expired /\ k = 1 /\ out[k].timer = 0))
    /\ [][/\ (StartStep /\ ~gameRunning) =>
                (gameTimer' = ROUND_SECONDS /\ gameRunning' /\ ~gamePaused')
          /\ (TickStep /\ gameTimer = ROUND_SECONDS /\ ~gamePaused) =>
                /\ gameTimer' = ROUND_SECONDS - 1 /\ gameRunning' /\ ~gamePaused'
                /\ out' = <<broadcastTimer(players, ROUND_SECONDS - 1, TRUE, FALSE)>>]_vars

\* The expiring tick reported 0 to a player and left the counter at 20
C18_Witness ==
    /\ Expired
    /\ players # <<>>
    /\ Len(out) > 1
    /\ out[1].timer = 0 /\ out[1].running
    /\ gameTimer = ROUND_SECONDS

\* The last move's roster has not been sent yet
MoveUnsent == thr.tLast > 0 /\ thr.eLast = 0
\* The roster as the last move left it was sent, by the throttle or by a handler
MoveSent ==
    \/ thr.tLast > 0 /\ thr.eLast >= 1 /\ thr.payload = thr.trigRoster
    \/ thr.tLast = 0

\* C19: after a move handled for a registered channel whose roster update was
\* deferred, a roster broadcast carrying the roster as that move left it follows:
\* the deferred callback's, a later move's, or a handler's immediate one.
C19_NoMoveIsLost == MoveUnsent ~> MoveSent

\* The deferred callback sent the roster of a move that had been held back
C19_Witness ==
    /\ ev.type = "deferred"
    /\ thr.tLast > 0 /\ thr.eLast = 1 /\ thr.payload = thr.trigRoster
    /\ thr.tLast < now
    /\ Len(out) = 1 /\ out[1].roster = Roster(players) /\ out[1].to # {}

\* C20: a started round that is not paused for ever ends by expiry or game:stop;
\* and once a collision has set the paused flag the counter keeps the value it had
\* until a player:infect, answer:correct or game:stop message is handled.  (The
\* formula is the second half: pauseMark is "paused" or "held" from the collision
\* until resumeTimer() or stopTimer() runs.)
C20_CounterFrozenWhilePaused ==
    pauseMark.state \in {"paused", "held"} => gameTimer = pauseMark.at

====
